---- MODULE Spec2Model ----
(***************************************************************************)
(* Part 6 of symbolic_discovery.py: the brute-force search for a formula   *)
(* op(C_i, C_j) or op(C_i) whose value is closest to constants_db          *)
(* ['TARGET'].  Parts 1-5 are straight-line sympy calls with no state and  *)
(* are not modelled.                                                       *)
(*                                                                         *)
(* Numbers.  The script computes in floating point; here every value is a  *)
(* fixed-point integer counting units of 1/Scale = 1e-4, the resolution of *)
(* the literals of constants_db (3.1415).  Add is exact; Mul, Pow and sqrt *)
(* round towards zero to a unit.  All tables of the model have their       *)
(* comparisons decided by margins far above one unit, or by exact values   *)
(* (integers, whose sums, products and integer powers are exact in         *)
(* floating point as well).  No table puts an error exactly on the         *)
(* tolerance, where the outcome would hang on the last bit of a double.    *)
(*                                                                         *)
(* Expressions.  sympy rewrites op(Symbol(a), Symbol(b)) into a canonical  *)
(* form of the same value (Add(a, a) is 2*a, Mul(a, a) is a**2).  An       *)
(* expression is kept here as the operator and the operand names it was    *)
(* built from.                                                             *)
(***************************************************************************)
EXTENDS Integers, Sequences, FiniteSets, TLC

\* ---------------------------------------------------------------- bounds
MaxConsts == 2
MaxVal == 3
MaxTarget == 9

\* ------------------------------------------------------------- constants
Scale == 10000

tolerance == Scale \div 1000

\* the expression slot before any candidate was stored
None == [op |-> "None", args |-> <<>>]

Inf == -1

TARGET == "TARGET"

operationsMulFirst == <<"Mul", "Add", "Pow", "sqrt">>

operations == <<"Add", "Mul", "Pow", "sqrt">>

BinaryOps == {"Add", "Mul", "Pow"}

\* ------------------------------------------------------------ arithmetic
Abs(x) == IF x < 0 THEN -x ELSE x

\* float('inf') compares greater than every finite error
Less(e, b) == e # Inf /\ (b = Inf \/ e < b)

\* a * b in fixed point, without leaving 32 bits
MulFix(a, b) ==
    LET ah == a \div Scale
        al == a % Scale
        bh == b \div Scale
        bl == b % Scale
    IN  ah * bh * Scale + ah * bl + al * bh + (al * bl) \div Scale

RECURSIVE IsqrtBetween(_, _, _)
IsqrtBetween(n, lo, hi) ==
    IF lo >= hi THEN lo
    ELSE LET mid == (lo + hi + 1) \div 2
         IN  IF mid * mid <= n THEN IsqrtBetween(n, mid, hi)
             ELSE IsqrtBetween(n, lo, mid - 1)

Isqrt(n) == IsqrtBetween(n, 0, 46340)

SqrtFix(x) == Isqrt(x * Scale)

RECURSIVE PowInt(_, _)
PowInt(b, n) == IF n = 0 THEN Scale ELSE MulFix(PowInt(b, n - 1), b)

\* b ** (f / Scale) for 0 <= f < Scale: the binary digits of the fraction
\* select the repeated square roots of b
RECURSIVE PowFrac(_, _, _)
PowFrac(r, f, bits) ==
    IF f = 0 \/ bits = 0 THEN Scale
    ELSE LET s == SqrtFix(r)
             g == 2 * f
         IN  IF g >= Scale THEN MulFix(s, PowFrac(s, g - Scale, bits - 1))
             ELSE PowFrac(s, g, bits - 1)

PowFix(b, e) == MulFix(PowInt(b, e \div Scale), PowFrac(b, e % Scale, 14))

Apply(op, v) ==
    CASE op = "Add"  -> v[1] + v[2]
      [] op = "Mul"  -> MulFix(v[1], v[2])
      [] op = "Pow"  -> PowFix(v[1], v[2])
      [] op = "sqrt" -> SqrtFix(v[1])

\* ---------------------------------------------------------------- tables
Entry(n, v) == [name |-> n, val |-> v]

ConstName(i) == "C" \o ToString(i)

ExampleTable ==
    << Entry("C1", 16180), Entry("C2", 27180), Entry("C3", 31415),
       Entry(TARGET, 98690) >>

ScenarioTable == << Entry(TARGET, 4 * Scale), Entry("A", 2 * Scale) >>

Values == { k * Scale : k \in 1..MaxVal }

\* whole targets, and two targets a unit inside and a unit outside the
\* tolerance around 4.0
TargetValues ==
    { k * Scale : k \in 1..MaxTarget } \cup { 4 * Scale + tolerance - 1, 4 * Scale + tolerance + 1 }

\* n constants C1..Cn in insertion order with the target entry at position pos
InsertTarget(vals, pos, t) ==
    [ i \in 1..(Len(vals) + 1) |->
        IF i < pos THEN Entry(ConstName(i), vals[i])
        ELSE IF i = pos THEN Entry(TARGET, t)
        ELSE Entry(ConstName(i - 1), vals[i - 1]) ]

GenericTables ==
    UNION { { InsertTarget(vals, pos, t) :
                vals \in [1..n -> Values], pos \in 1..(n + 1), t \in TargetValues } :
            n \in 0..MaxConsts }

Tables == GenericTables \cup {ExampleTable, ScenarioTable}

\* ---------------------------------------------------------------- state
VARIABLES constants_db, pc, opIdx, uIdx, bIdx, best_match, output, evaluated

vars == <<constants_db, pc, opIdx, uIdx, bIdx, best_match, output, evaluated>>

\* constants_db['TARGET']
TargetVal == constants_db[CHOOSE i \in 1..Len(constants_db) : constants_db[i].name = TARGET].val

Lookup(n) == constants_db[CHOOSE i \in 1..Len(constants_db) : constants_db[i].name = n].val

Expr(op, names) == [op |-> op, args |-> names]

\* symbolic_expr.evalf(subs={...})
Evalf(expr) == Apply(expr.op, [k \in 1..Len(expr.args) |-> Lookup(expr.args[k])])

ErrorOf(expr) == Abs(Evalf(expr) - TargetVal)

\* itertools.combinations_with_replacement(range(1, n + 1), 2)
RECURSIVE PairsFrom(_, _, _)
PairsFrom(i, j, n) ==
    IF i > n THEN <<>>
    ELSE IF j > n THEN PairsFrom(i + 1, i + 1, n)
    ELSE << <<i, j>> >> \o PairsFrom(i, j + 1, n)

\* itertools.product(range(1, n + 1), repeat=2)
product(n) == [ k \in 1..(n * n) |-> << ((k - 1) \div n) + 1, ((k - 1) % n) + 1 >> ]

\* itertools.combinations(range(1, n + 1), 2)
combinations(n) ==
    LET Distinct(p) == p[1] # p[2]
    IN  SelectSeq(PairsFrom(1, 1, n), Distinct)

combinations_with_replacement(n) == PairsFrom(1, 1, n)

Pairs == combinations_with_replacement(Len(constants_db))

IsDiscoveryAbove(error) == error > tolerance

IsDiscovery(error) == error < tolerance

UpdateBestAlways(best, expr, error) == [expr |-> expr, error |-> error]

UpdateBestOnTie(best, expr, error) ==
    IF ~Less(best.error, error) THEN [expr |-> expr, error |-> error] ELSE best

UpdateBest(best, expr, error) ==
    IF Less(error, best.error) THEN [expr |-> expr, error |-> error] ELSE best

DiscoveryLine(expr, error) == [kind |-> "discovery", expr |-> expr, error |-> error]

\* the report moved under the comparison with the record
ConsiderNested(expr) ==
    LET error == ErrorOf(expr)
    IN  /\ output' = IF IsDiscovery(error) /\ Less(error, best_match.error)
                     THEN Append(output, DiscoveryLine(expr, error))
                     ELSE output
        /\ best_match' = UpdateBest(best_match, expr, error)
        /\ evaluated' = Append(evaluated, [expr |-> expr, error |-> error])

\* the body shared by the unary and the binary loop: evaluate, report, update
Consider(expr) ==
    LET error == ErrorOf(expr)
    IN  /\ output' = IF IsDiscovery(error)
                     THEN Append(output, DiscoveryLine(expr, error))
                     ELSE output
        /\ best_match' = UpdateBest(best_match, expr, error)
        /\ evaluated' = Append(evaluated, [expr |-> expr, error |-> error])

Init ==
    /\ constants_db \in Tables
    /\ pc = "unary"
    /\ opIdx = 1
    /\ uIdx = 1
    /\ bIdx = 1
    /\ best_match = [expr |-> None, error |-> Inf]
    /\ output = <<>>
    /\ evaluated = <<>>

\* line 229: if c_name == 'TARGET': continue
UnarySkipTarget ==
    /\ pc = "unary"
    /\ uIdx <= Len(constants_db)
    /\ constants_db[uIdx].name = TARGET
    /\ uIdx' = uIdx + 1
    /\ UNCHANGED <<constants_db, pc, opIdx, bIdx, best_match, output, evaluated>>

\* lines 232-233: symbolic_expr is None unless op is sqrt
UnaryNone ==
    /\ pc = "unary"
    /\ uIdx <= Len(constants_db)
    /\ constants_db[uIdx].name # TARGET
    /\ operations[opIdx] # "sqrt"
    /\ uIdx' = uIdx + 1
    /\ UNCHANGED <<constants_db, pc, opIdx, bIdx, best_match, output, evaluated>>

\* lines 232-243
UnaryEval ==
    /\ pc = "unary"
    /\ uIdx <= Len(constants_db)
    /\ constants_db[uIdx].name # TARGET
    /\ operations[opIdx] = "sqrt"
    /\ Consider(Expr("sqrt", <<constants_db[uIdx].name>>))
    /\ uIdx' = uIdx + 1
    /\ UNCHANGED <<constants_db, pc, opIdx, bIdx>>

\* the next iteration of "for op, op_symbol in zip(operations, op_symbols)"
NextOp ==
    /\ opIdx' = opIdx + 1
    /\ uIdx' = 1
    /\ bIdx' = 1
    /\ pc' = IF opIdx < Len(operations) THEN "unary" ELSE "report"

\* line 246, op in [sp.Add, sp.Mul, sp.Pow]: enter the binary loop
UnaryDoneBinary ==
    /\ pc = "unary"
    /\ uIdx > Len(constants_db)
    /\ operations[opIdx] \in BinaryOps
    /\ pc' = "binary"
    /\ bIdx' = 1
    /\ UNCHANGED <<constants_db, opIdx, uIdx, best_match, output, evaluated>>

\* line 246, op is sqrt: no binary loop
UnaryDoneNext ==
    /\ pc = "unary"
    /\ uIdx > Len(constants_db)
    /\ operations[opIdx] \notin BinaryOps
    /\ NextOp
    /\ UNCHANGED <<constants_db, best_match, output, evaluated>>

\* line 248: if 'TARGET' in [c1_name, c2_name]: continue
BinarySkipTarget ==
    /\ pc = "binary"
    /\ bIdx <= Len(Pairs)
    /\ TARGET \in { constants_db[Pairs[bIdx][1]].name, constants_db[Pairs[bIdx][2]].name }
    /\ bIdx' = bIdx + 1
    /\ UNCHANGED <<constants_db, pc, opIdx, uIdx, best_match, output, evaluated>>

\* lines 251-262
BinaryEval ==
    /\ pc = "binary"
    /\ bIdx <= Len(Pairs)
    /\ TARGET \notin { constants_db[Pairs[bIdx][1]].name, constants_db[Pairs[bIdx][2]].name }
    /\ Consider(Expr(operations[opIdx],
                     << constants_db[Pairs[bIdx][1]].name, constants_db[Pairs[bIdx][2]].name >>))
    /\ bIdx' = bIdx + 1
    /\ UNCHANGED <<constants_db, pc, opIdx, uIdx>>

BinaryDone ==
    /\ pc = "binary"
    /\ bIdx > Len(Pairs)
    /\ NextOp
    /\ UNCHANGED <<constants_db, best_match, output, evaluated>>

\* lines 265-271 with an expression in the record
Report ==
    /\ pc = "report"
    /\ best_match.expr # None
    /\ output' = output \o << [kind |-> "complete"],
                              [kind |-> "best", expr |-> best_match.expr],
                              [kind |-> "value", val |-> Evalf(best_match.expr)],
                              [kind |-> "error", error |-> best_match.error] >>
    /\ pc' = "done"
    /\ UNCHANGED <<constants_db, opIdx, uIdx, bIdx, best_match, evaluated>>

\* lines 265-267 with None in the record: None.evalf raises AttributeError
ReportRaises ==
    /\ pc = "report"
    /\ best_match.expr = None
    /\ output' = output \o << [kind |-> "complete"],
                              [kind |-> "best", expr |-> None] >>
    /\ pc' = "raised"
    /\ UNCHANGED <<constants_db, opIdx, uIdx, bIdx, best_match, evaluated>>

Next ==
    \/ UnarySkipTarget
    \/ UnaryNone
    \/ UnaryEval
    \/ UnaryDoneBinary
    \/ UnaryDoneNext
    \/ BinarySkipTarget
    \/ BinaryEval
    \/ BinaryDone
    \/ Report
    \/ ReportRaises

Spec == Init /\ [][Next]_vars

TypeOK ==
    /\ constants_db \in Tables
    /\ pc \in {"unary", "binary", "report", "done", "raised"}
    /\ opIdx \in 1..(Len(operations) + 1)
    /\ best_match.error = Inf <=> best_match.expr = None

\* ------------------------------------------------------------ properties
NonTarget == { i \in 1..Len(constants_db) : constants_db[i].name # TARGET }

NameAt(i) == constants_db[i].name

IndexOf(n) == CHOOSE i \in 1..Len(constants_db) : constants_db[i].name = n

Scanned == pc \in {"report", "done", "raised"}

UnaryCandidates == { Expr("sqrt", <<NameAt(i)>>) : i \in NonTarget }

BinaryCandidates ==
    { Expr(op, <<NameAt(p[1]), NameAt(p[2])>>) :
        op \in BinaryOps, p \in { q \in NonTarget \X NonTarget : q[1] <= q[2] } }

AllCandidates == UnaryCandidates \cup BinaryCandidates

IsBinary(expr) == expr.op \in BinaryOps

Reported(expr) ==
    \E k \in 1..Len(output) : output[k].kind = "discovery" /\ output[k].expr = expr

ReportedDuringScan(expr) ==
    \E k \in 1..Len(output) :
        /\ output[k] = DiscoveryLine(expr, ErrorOf(expr))
        /\ \A m \in 1..k : output[m].kind # "complete"

\* C1: once the scan is over and at least one candidate was enumerated, the
\* stored error is the error of the stored expression and is at most the
\* error of every candidate: every one that was evaluated, every square root
\* of a non-target constant and every add/multiply/power of a pair of them.
C1_BestIsMinimum ==
    (Scanned /\ evaluated # <<>>) =>
        /\ best_match.expr # None
        /\ best_match.error = ErrorOf(best_match.expr)
        /\ \A k \in 1..Len(evaluated) : best_match.error <= evaluated[k].error
        /\ \A c \in AllCandidates : best_match.error <= ErrorOf(c)

C1_Witness ==
    /\ pc = "done"
    /\ Len(evaluated) >= 2
    /\ best_match.expr # evaluated[1].expr
    /\ \E c \in AllCandidates : best_match.error < ErrorOf(c)

\* C2: for the table of the script, C1 1.618, C2 2.718, C3 3.1415 and target
\* 9.869, the scan ends with Mul(C3, C3) in the record, its error is below
\* the tolerance, and it was printed as a potential discovery during the scan.
C2_ExampleFindsC3Squared ==
    (constants_db = ExampleTable /\ pc = "done") =>
        /\ best_match.expr = Expr("Mul", <<"C3", "C3">>)
        /\ best_match.error < tolerance
        /\ ReportedDuringScan(best_match.expr)

C2_Witness ==
    /\ constants_db = ExampleTable
    /\ pc = "done"
    /\ Len(evaluated) = 21
    /\ \E k \in 1..Len(output) : output[k].kind = "discovery"

\* C3 as stated: for target 4.0 and the single constant A = 2.0 the final
\* best match is Mul(A, A) with error 0, flagged as a discovery.
C3_ScenarioBestIsProduct ==
    (constants_db = ScenarioTable /\ pc = "done") =>
        /\ best_match = [expr |-> Expr("Mul", <<"A", "A">>), error |-> 0]
        /\ ReportedDuringScan(Expr("Mul", <<"A", "A">>))

\* C3 amended: for target 4.0 and the single constant A = 2.0 the final best
\* match is Add(A, A) with error 0, flagged as a discovery; Mul(A, A) has
\* error 0 as well and is flagged as a discovery, but comes later in the
\* enumeration and does not replace it.
C3_ScenarioBestIsSum ==
    (constants_db = ScenarioTable /\ pc = "done") =>
        /\ best_match = [expr |-> Expr("Add", <<"A", "A">>), error |-> 0]
        /\ ReportedDuringScan(Expr("Add", <<"A", "A">>))
        /\ ErrorOf(Expr("Mul", <<"A", "A">>)) = 0
        /\ ReportedDuringScan(Expr("Mul", <<"A", "A">>))

C3_Witness ==
    /\ constants_db = ScenarioTable
    /\ pc = "done"
    /\ \E k \in 1..Len(evaluated) : evaluated[k] = [expr |-> Expr("Mul", <<"A", "A">>), error |-> 0]

\* C4 as stated: with exactly one non-target constant no add, multiply or
\* power candidate is ever evaluated, reported or stored.
C4_OneConstantNoBinary ==
    Cardinality(NonTarget) = 1 =>
        /\ \A k \in 1..Len(evaluated) : ~IsBinary(evaluated[k].expr)
        /\ \A k \in 1..Len(output) : output[k].kind = "discovery" => ~IsBinary(output[k].expr)
        /\ ~IsBinary(best_match.expr)

\* C4 amended: with exactly one non-target constant c the scan enumerates,
\* in this order, Add(c, c), Mul(c, c), Pow(c, c) and sqrt(c) and nothing
\* else: the only binary candidates evaluated, reported or stored are the
\* self-pairings of c, one per binary operator.
C4_OneConstantSelfPairsOnly ==
    Cardinality(NonTarget) = 1 =>
        LET c == NameAt(CHOOSE i \in NonTarget : TRUE)
            SelfPair(expr) == IsBinary(expr) => expr.args = <<c, c>>
        IN  /\ \A k \in 1..Len(evaluated) : SelfPair(evaluated[k].expr)
            /\ \A k \in 1..Len(output) : output[k].kind = "discovery" => SelfPair(output[k].expr)
            /\ SelfPair(best_match.expr)
            /\ Scanned =>
                 [k \in 1..Len(evaluated) |-> evaluated[k].expr] =
                    << Expr("Add", <<c, c>>), Expr("Mul", <<c, c>>),
                       Expr("Pow", <<c, c>>), Expr("sqrt", <<c>>) >>

C4_Witness ==
    /\ Cardinality(NonTarget) = 1
    /\ pc = "done"
    /\ \E k \in 1..Len(evaluated) : IsBinary(evaluated[k].expr)
    /\ \E k \in 1..Len(evaluated) : ~IsBinary(evaluated[k].expr)

\* C5: the target is never an operand of a candidate, and when the scan is
\* over each binary operator has been applied to exactly the pairs (ci, cj)
\* of non-target constants with ci inserted no later than cj, each pair once:
\* with two non-target constants (c1, c1), (c1, c2), (c2, c2), wherever the
\* target sits.
C5_PairsWithReplacement ==
    /\ \A k \in 1..Len(evaluated) :
         \A m \in 1..Len(evaluated[k].expr.args) : evaluated[k].expr.args[m] # TARGET
    /\ Scanned =>
         \A op \in BinaryOps :
            LET HasOp(e) == e.expr.op = op
                done == SelectSeq(evaluated, HasOp)
                want == { <<NameAt(p[1]), NameAt(p[2])>> :
                            p \in { q \in NonTarget \X NonTarget : q[1] <= q[2] } }
            IN  /\ { done[k].expr.args : k \in 1..Len(done) } = want
                /\ Len(done) = Cardinality(want)

C5_Witness ==
    /\ pc = "done"
    /\ Cardinality(NonTarget) = 2
    /\ constants_db[2].name = TARGET
    /\ LET HasMul(e) == e.expr.op = "Mul"
       IN  [k \in 1..3 |-> SelectSeq(evaluated, HasMul)[k].expr.args] =
              << <<"C1", "C1">>, <<"C1", "C2">>, <<"C2", "C2">> >>

\* C6: at every point of the run the potential-discovery lines printed so far
\* are, in order, exactly the candidates evaluated so far whose error is
\* below the tolerance, whether or not they replaced the record, and none of
\* them is printed after the final report has begun.
C6_ReportedIffBelowTolerance ==
    LET IsLine(l) == l.kind = "discovery"
        Below(e) == e.error < tolerance
        lines == SelectSeq(output, IsLine)
        below == SelectSeq(evaluated, Below)
    IN  /\ lines = [k \in 1..Len(below) |-> DiscoveryLine(below[k].expr, below[k].error)]
        /\ \A i, j \in 1..Len(output) :
             (i < j /\ output[i].kind = "complete") => output[j].kind # "discovery"

C6_Witness ==
    /\ pc = "done"
    /\ \E k \in 1..Len(evaluated) :
         /\ evaluated[k].error < tolerance
         /\ evaluated[k].expr # best_match.expr
         /\ Reported(evaluated[k].expr)
    /\ \E k \in 1..Len(evaluated) :
         /\ evaluated[k].error >= tolerance
         /\ ~Reported(evaluated[k].expr)

\* C7 as stated: with no non-target entry in the table the final report does
\* not raise.
C7_EmptyTableDoesNotRaise ==
    NonTarget = {} => pc # "raised"

\* C8: when the scan is over, every other candidate whose error equals the
\* stored error comes later in the enumeration than the stored expression:
\* it has a later operator in the order add, multiply, power, square root,
\* or the same operator and operands later in insertion order.
Rank(expr) ==
    << CHOOSE k \in 1..4 : <<"Add", "Mul", "Pow", "sqrt">>[k] = expr.op,
       IndexOf(expr.args[1]),
       IF Len(expr.args) = 2 THEN IndexOf(expr.args[2]) ELSE 0 >>

Before(r, s) ==
    \/ r[1] < s[1]
    \/ r[1] = s[1] /\ r[2] < s[2]
    \/ r[1] = s[1] /\ r[2] = s[2] /\ r[3] < s[3]

C8_FirstOfTiesWins ==
    (Scanned /\ evaluated # <<>>) =>
        \A c \in AllCandidates \ {best_match.expr} :
            ErrorOf(c) = best_match.error => Before(Rank(best_match.expr), Rank(c))

C8_Witness ==
    /\ pc = "done"
    /\ \E c \in AllCandidates \ {best_match.expr} :
         /\ ErrorOf(c) = best_match.error
         /\ c.op = best_match.expr.op
    /\ \E c \in AllCandidates :
         /\ ErrorOf(c) = best_match.error
         /\ c.op # best_match.expr.op

\* C9: in every step the stored error does not increase; the record changes
\* only in a step that evaluates a candidate whose error is strictly smaller
\* than the error stored before the step, and then holds that candidate and
\* its error; once the scan is over the record does not change.
C9_RecordMonotonic ==
    [][ /\ ~Less(best_match.error, best_match'.error)
        /\ best_match' # best_match =>
             /\ Len(evaluated') = Len(evaluated) + 1
             /\ LET c == evaluated'[Len(evaluated')]
                IN  /\ Less(c.error, best_match.error)
                    /\ best_match' = [expr |-> c.expr, error |-> c.error]
        /\ Scanned => best_match' = best_match ]_vars

C9_Witness ==
    /\ pc = "done"
    /\ Len(evaluated) >= 3
    /\ best_match.expr # evaluated[1].expr
    /\ \E k \in 2..Len(evaluated) : evaluated[k].error = best_match.error
                                      /\ evaluated[k].expr # best_match.expr

\* C10: a power candidate over two distinct constants always has the
\* earlier-inserted one as base and the later-inserted one as exponent; the
\* reverse orientation is never evaluated, reported or stored.  (That the
\* insertion order can matter is C10_Witness: a finished scan in which the
\* reverse power of two constants is strictly closer to the target than the
\* stored best match.)
C10_PowerOrientation ==
    LET Forward(expr) ==
            (expr.op = "Pow" /\ expr.args[1] # expr.args[2]) =>
                IndexOf(expr.args[1]) < IndexOf(expr.args[2])
    IN  /\ \A k \in 1..Len(evaluated) : Forward(evaluated[k].expr)
        /\ \A k \in 1..Len(output) : output[k].kind = "discovery" => Forward(output[k].expr)
        /\ best_match.expr # None => Forward(best_match.expr)

C10_Witness ==
    /\ pc = "done"
    /\ \E i, j \in NonTarget :
         /\ i < j
         /\ ErrorOf(Expr("Pow", <<NameAt(j), NameAt(i)>>)) < best_match.error
         /\ \E k \in 1..Len(evaluated) :
              evaluated[k].expr = Expr("Pow", <<NameAt(i), NameAt(j)>>)

====
